---- MODULE Spec2Model ----
(***************************************************************************)
(* The asynchronous post-processing pipeline of bluesky-robust-watermarker *)
(* as a state machine: the SQS trigger, the Step Functions workflow        *)
(* (CheckImageCount, ParallelWatermarkTasks, PostToBlueskyTask,            *)
(* GenerateProvenanceTask, UpdateUserListTask) and the Lambda handlers the *)
(* workflow invokes, with the stores they share (processing-progress       *)
(* table, posts table, public bucket, the external network).               *)
(*                                                                         *)
(* One submitted post is followed.  Its post.json holds imageMetadata with *)
(* postImages entries.  Every execution of the workflow for that post is   *)
(* one slot of Executions; slots are filled in order.                      *)
(*                                                                         *)
(* Five further specifications share the module: FacetSpec (detectFacets   *)
(* over bounded texts), SettingsSpec (settings saves and listing-page runs *)
(* of one user), PollSpec (the progress endpoint), HandlerSpec (one        *)
(* Publish or Provenance invocation, await by await) and ListingSpec (the  *)
(* list update-user-list renders).                                         *)
(***************************************************************************)
EXTENDS Integers, Sequences, FiniteSets, TLC

\* ---------------------------------------------------------------- bounds
\* number of imageMetadata entries a submitted post may carry in the model
MaxImages == 5
\* number of workflow executions started for the post in the model
MaxExecutions == 2
\* number of pieces a text given to detectFacets is put together from
MaxPieces == 5
\* number of settings-save requests of the user in flight at a time
MaxRequests == 2
\* number of posts the listing of a user's posts may find
MaxPosts == 1
\* users of the service
MaxUsers == 2
\* posts in the stores when the listing of a user is rendered
MaxListed == 2

\* ------------------------------------------------------ program constants
\* Map state: maxConcurrency
MaxConcurrency == 4
\* "Invalid image count (0 or >4), ending workflow"
MaxValidImageCount == 4

Executions == 1..MaxExecutions

VARIABLES
  postImages,      \* length of imageMetadata in {postId}/post.json
  execState,       \* [Executions -> state of the workflow execution]
  origin,          \* [Executions -> who started it, or the trigger threw]
  items,           \* [Executions -> length of $.imageMetadata in the input]
  wmStarted,       \* [Executions -> watermark invocations started by the Map]
  wmDone,          \* [Executions -> watermark invocations that returned]
  pos,             \* [Executions -> position inside the running handler]
  failedStep,      \* [Executions -> the step whose exception failed it]
  invoked,         \* [Executions -> [step -> times the step was invoked]]
  returned,        \* [Executions -> [step -> times the step returned]]
  createAttempts,  \* [Executions -> createRecord calls made]
  savedBy,         \* [Executions -> savePost calls that succeeded]
  progress,        \* the ProgressRecord of the post, or NoRecord
  externalPosts,   \* records created on the external network
  postRecord,      \* posts table holds an item for the post
  provenancePage,  \* provenance/{postId}/index.html exists
  listPage,        \* users/{provenancePageId}.html exists
  lastWriter,      \* the execution whose write the ProgressRecord holds, 0 if none
  text,            \* the text given to detectFacets
  resolvable,      \* the mention matches whose handle resolves to a DID
  fphase,          \* [Runs -> position of the run of detectFacets]
  facets,          \* [Runs -> the facets array of the run]
  results,         \* [Runs -> values of the mention promises, by index]
  completion,      \* [Runs -> order in which the promises settled]
  userPid,         \* provenancePageId in {userId}.json, 0 without object
  minted,          \* UUIDs generated and stored so far
  firstStored,     \* provenancePageId stored by the first settings save
  req,             \* [Requests -> position of a settings-save request]
  reindex,         \* position of the running update-user-list handler
  lastReindex,     \* what the last update-user-list run published
  prevReindex,     \* what the run before it published
  pollResponse,    \* last response of the progress endpoint
  hInput,          \* what one handler invocation is given: step, fault, owner
  hRun,            \* [Runs -> the invocation of the handler under hInput]
  postStore,       \* [PostIds -> what the stores hold of a post]
  rendered         \* what the last update-user-list run rendered

executionVars ==
  <<postImages, execState, origin, items, wmStarted, wmDone, pos, failedStep,
    invoked, returned, createAttempts, savedBy, externalPosts, postRecord,
    provenancePage, listPage>>

pipelineVars == <<executionVars, progress, lastWriter>>

facetVars == <<text, resolvable, fphase, facets, results, completion>>

settingsVars ==
  <<userPid, minted, firstStored, req, reindex, lastReindex, prevReindex>>

handlerVars == <<hInput, hRun>>

listingVars == <<postStore, rendered>>

\* what the workflow and its handlers never touch
sideVars == <<facetVars, settingsVars, pollResponse, handlerVars, listingVars>>

vars == <<pipelineVars, sideVars>>

NoRecord == [status |-> "none", progress |-> 0, message |-> "", error |-> FALSE]

Steps == {"publish", "provenance", "reindex"}
NoneInvoked == [s \in Steps |-> 0]

TerminalStates == {"InvalidImageCountEnd", "Succeeded", "Failed", "TimedOut"}

Terminal(e) == execState[e] \in TerminalStates

Started(e) == execState[e] # "NotStarted"

\* ------------------------------------------------------- progress tracker
\* updateProgress: one PutItem of the whole item; with the table name unset
\* or the PutItem throwing, nothing is written and nothing is raised.
updateProgress(rec, status, prog, message, written) ==
  IF written
  THEN [status |-> status, progress |-> prog, message |-> message, error |-> FALSE]
  ELSE rec

\* markFailed of post-to-bluesky.ts (progress defaults to 40)
markFailedPublish(rec, written) ==
  IF written
  THEN [status |-> "error", progress |-> 40,
        message |-> "Bluesky posting failed", error |-> TRUE]
  ELSE rec

\* markFailed of generate-provenance.ts (progress defaults to 80)
markFailedProvenance(rec, written) ==
  IF written
  THEN [status |-> "error", progress |-> 80,
        message |-> "Provenance generation failed", error |-> TRUE]
  ELSE rec

\* execution e puts rec; written tells whether the put took effect
WriteProgress(e, rec, written) ==
  /\ progress' = rec
  /\ lastWriter' = IF written THEN e ELSE lastWriter

\* ------------------------------------------------------------ initial state
\* no execution of the workflow exists, nothing is published
ExecutionsIdle ==
  /\ execState = [e \in Executions |-> "NotStarted"]
  /\ origin = [e \in Executions |-> "none"]
  /\ items = [e \in Executions |-> 0]
  /\ wmStarted = [e \in Executions |-> 0]
  /\ wmDone = [e \in Executions |-> 0]
  /\ pos = [e \in Executions |-> "idle"]
  /\ failedStep = [e \in Executions |-> "none"]
  /\ invoked = [e \in Executions |-> NoneInvoked]
  /\ returned = [e \in Executions |-> NoneInvoked]
  /\ createAttempts = [e \in Executions |-> 0]
  /\ savedBy = [e \in Executions |-> 0]
  /\ externalPosts = 0
  /\ postRecord = FALSE
  /\ provenancePage = FALSE
  /\ listPage = FALSE

\* the next free execution slot
FreeSlot(e) ==
  /\ execState[e] = "NotStarted"
  /\ \A f \in Executions : f < e => Started(f)

Begin(e, who, n) ==
  /\ execState' = [execState EXCEPT ![e] = "CheckImageCount"]
  /\ origin' = [origin EXCEPT ![e] = who]
  /\ items' = [items EXCEPT ![e] = n]


\* --------------------------------------------------------- ingress trigger
\* a catch that logs the failed start and lets the handler return 200
TriggerOutcomeSwallowed(startOk) == "queue"

\* trigger.ts handler, its result for the one record of the batch: 200
\* after the StartExecution call, the error re-thrown when the call failed
TriggerOutcome(startOk) == IF startOk THEN "queue" ELSE "thrown"

\* trigger.ts handler: one StartExecution per record, input built from the
\* message fields postId, userId, bucket, timestamp (no imageMetadata, no
\* progress write); a failing start is re-thrown and the message stays in
\* the queue for the next delivery into the same slot.
TriggerHandler(e) ==
  /\ FreeSlot(e)
  /\ \E startOk \in BOOLEAN :
       IF startOk
       THEN Begin(e, TriggerOutcome(startOk), 0)
       ELSE /\ origin' = [origin EXCEPT ![e] = TriggerOutcome(startOk)]
            /\ UNCHANGED <<execState, items>>
  /\ UNCHANGED <<sideVars, postImages, wmStarted, wmDone, pos, failedStep, invoked,
                 returned, createAttempts, savedBy, progress, lastWriter,
                 externalPosts, postRecord, provenancePage, listPage>>

\* An execution of PostProcessingWorkflow whose input carries the post's
\* imageMetadata, the input shape the Map state iterates over.
StartExecution(e) ==
  /\ FreeSlot(e)
  /\ Begin(e, "direct", postImages)
  /\ UNCHANGED <<sideVars, postImages, wmStarted, wmDone, pos, failedStep, invoked,
                 returned, createAttempts, savedBy, progress, lastWriter, externalPosts,
                 postRecord, provenancePage, listPage>>

\* ------------------------------------------------------ workflow definition
\* Condition.isPresent('$.imageMetadata[0]')
IsPresentFirstImage(n) == n >= 1

\* a Map without maxConcurrency
CanStartIterationUncapped(started, done, n) == started < n

\* Map state: the next item is started while fewer than maxConcurrency
\* iterations are running
CanStartIteration(started, done, n) ==
  started < n /\ started - done < MaxConcurrency

\* Map state: items are dispatched as soon as the Map may start them
RECURSIVE Dispatch(_, _, _)
Dispatch(started, done, n) ==
  IF CanStartIteration(started, done, n)
  THEN Dispatch(started + 1, done, n)
  ELSE started

\* a fan-in that proceeds on the first iteration that returns
MapSucceededOnFirst(done, n) == done >= 1

\* Map state: the state succeeds when every iteration has succeeded
MapSucceeded(done, n) == done = n

\* a chain with the provenance and reindex tasks exchanged
NextStateReindexFirst(s) ==
  CASE s = "ParallelWatermarkTasks" -> "PostToBlueskyTask"
    [] s = "PostToBlueskyTask" -> "UpdateUserListTask"
    [] s = "UpdateUserListTask" -> "GenerateProvenanceTask"
    [] s = "GenerateProvenanceTask" -> "Succeeded"

\* definition: parallelWatermarkTasks.next(postToBlueskyTask)
\*   .next(generateProvenanceTask).next(updateUserListTask)
NextState(s) ==
  CASE s = "ParallelWatermarkTasks" -> "PostToBlueskyTask"
    [] s = "PostToBlueskyTask" -> "GenerateProvenanceTask"
    [] s = "GenerateProvenanceTask" -> "UpdateUserListTask"
    [] s = "UpdateUserListTask" -> "Succeeded"

StepOf(s) ==
  CASE s = "PostToBlueskyTask" -> "publish"
    [] s = "GenerateProvenanceTask" -> "provenance"
    [] s = "UpdateUserListTask" -> "reindex"

\* a state of the chain returned: the execution moves to the next state and,
\* when that is a LambdaInvoke task, invokes its function
Advance(e) ==
  LET n == NextState(execState[e]) IN
  /\ execState' = [execState EXCEPT ![e] = n]
  /\ IF n = "Succeeded"
     THEN /\ pos' = [pos EXCEPT ![e] = "idle"]
          /\ invoked' = invoked
     ELSE /\ pos' = [pos EXCEPT ![e] = "start"]
          /\ invoked' = [invoked EXCEPT ![e][StepOf(n)] = @ + 1]

\* a task raised: no Retry and no Catch is declared, the execution fails
Fail(e, step) ==
  /\ execState' = [execState EXCEPT ![e] = "Failed"]
  /\ failedStep' = [failedStep EXCEPT ![e] = step]
  /\ pos' = [pos EXCEPT ![e] = "idle"]

\* Choice CheckImageCount: on to the Map, which dispatches its first
\* iterations, otherwise to the Succeed state InvalidImageCountEnd
CheckImageCount(e) ==
  /\ execState[e] = "CheckImageCount"
  /\ IF IsPresentFirstImage(items[e])
     THEN /\ execState' = [execState EXCEPT ![e] = "ParallelWatermarkTasks"]
          /\ wmStarted' = [wmStarted EXCEPT ![e] = Dispatch(0, 0, items[e])]
     ELSE /\ execState' = [execState EXCEPT ![e] = "InvalidImageCountEnd"]
          /\ UNCHANGED wmStarted
  /\ UNCHANGED <<sideVars, postImages, origin, items, wmDone, pos, failedStep,
                 invoked, returned, createAttempts, savedBy, progress, lastWriter,
                 externalPosts, postRecord, provenancePage, listPage>>

\* ----------------------------------------------------------- watermark step
\* the embed-watermark function, by its contract: success or failure per
\* image; a failing invocation records the error before raising
markFailedWatermark(rec) ==
  [status |-> "error", progress |-> 0,
   message |-> "Watermark embedding failed", error |-> TRUE]

\* one running iteration returns; the Map dispatches the next waiting item
WatermarkSucceed(e) ==
  /\ execState[e] = "ParallelWatermarkTasks"
  /\ wmStarted[e] > wmDone[e]
  /\ wmDone' = [wmDone EXCEPT ![e] = @ + 1]
  /\ wmStarted' = [wmStarted EXCEPT ![e] = Dispatch(@, wmDone[e] + 1, items[e])]
  /\ IF MapSucceeded(wmDone[e] + 1, items[e])
     THEN Advance(e)
     ELSE UNCHANGED <<execState, pos, invoked>>
  /\ UNCHANGED <<sideVars, postImages, origin, items, failedStep, returned,
                 createAttempts, savedBy, progress, lastWriter, externalPosts, postRecord,
                 provenancePage, listPage>>

WatermarkFail(e) ==
  /\ execState[e] = "ParallelWatermarkTasks"
  /\ wmStarted[e] > wmDone[e]
  /\ WriteProgress(e, markFailedWatermark(progress), TRUE)
  /\ Fail(e, "watermark")
  /\ UNCHANGED <<sideVars, postImages, origin, items, wmStarted, wmDone, invoked,
                 returned, createAttempts, savedBy, externalPosts, postRecord,
                 provenancePage, listPage>>


\* ------------------------------------------------------------- publish step
\* post-to-bluesky.ts handler, cut at its awaits on shared state

Return(e, step) ==
  /\ returned' = [returned EXCEPT ![e][step] = @ + 1]
  /\ Advance(e)

\* a catch that records the failure and does not re-throw
PublishCatchNoRethrow(e, written) ==
  /\ WriteProgress(e, markFailedPublish(progress, written), written)
  /\ Advance(e)
  /\ UNCHANGED <<failedStep, returned>>

\* catch: markFailed, then re-throw
PublishCatch(e, written) ==
  /\ WriteProgress(e, markFailedPublish(progress, written), written)
  /\ Fail(e, "publish")
  /\ UNCHANGED <<invoked, returned>>

\* updateProgress(postId, 'posting', 35, ...)
PublishBegin(e) ==
  /\ execState[e] = "PostToBlueskyTask" /\ pos[e] = "start"
  /\ \E written \in BOOLEAN :
       WriteProgress(e, updateProgress(progress, "posting", 35,
                                  "Starting Bluesky post", written), written)
  /\ pos' = [pos EXCEPT ![e] = "load"]
  /\ UNCHANGED <<sideVars, postImages, execState, origin, items, wmStarted, wmDone,
                 failedStep, invoked, returned, createAttempts, savedBy,
                 externalPosts, postRecord, provenancePage, listPage>>

\* post.json, {userId}.json, KMS decrypt; then updateProgress(.., 40, ..)
PublishLoad(e) ==
  /\ execState[e] = "PostToBlueskyTask" /\ pos[e] = "load"
  /\ \E loaded \in BOOLEAN, written \in BOOLEAN :
       IF loaded
       THEN /\ WriteProgress(e, updateProgress(progress, "posting", 40,
                                          "Connecting to Bluesky", written), written)
            /\ pos' = [pos EXCEPT ![e] = "login"]
            /\ UNCHANGED <<execState, failedStep, invoked, returned>>
       ELSE PublishCatch(e, written)
  /\ UNCHANGED <<sideVars, postImages, origin, items, wmStarted, wmDone, createAttempts,
                 savedBy, externalPosts, postRecord, provenancePage, listPage>>

\* agent.login, detectFacets, image upload; then updateProgress(.., 60, ..)
PublishLogin(e) ==
  /\ execState[e] = "PostToBlueskyTask" /\ pos[e] = "login"
  /\ \E loggedIn \in BOOLEAN, written \in BOOLEAN :
       IF loggedIn
       THEN /\ WriteProgress(e, updateProgress(progress, "posting", 60,
                                          "Publishing to Bluesky", written), written)
            /\ pos' = [pos EXCEPT ![e] = "create"]
            /\ UNCHANGED <<execState, failedStep, invoked, returned>>
       ELSE PublishCatch(e, written)
  /\ UNCHANGED <<sideVars, postImages, origin, items, wmStarted, wmDone, createAttempts,
                 savedBy, externalPosts, postRecord, provenancePage, listPage>>

\* agent.api.com.atproto.repo.createRecord
PublishCreate(e) ==
  /\ execState[e] = "PostToBlueskyTask" /\ pos[e] = "create"
  /\ createAttempts' = [createAttempts EXCEPT ![e] = @ + 1]
  /\ \E created \in BOOLEAN, written \in BOOLEAN :
       IF created
       THEN /\ externalPosts' = externalPosts + 1
            /\ pos' = [pos EXCEPT ![e] = "created"]
            /\ UNCHANGED <<execState, failedStep, invoked, returned, progress, lastWriter>>
       ELSE /\ PublishCatch(e, written)
            /\ UNCHANGED externalPosts
  /\ UNCHANGED <<sideVars, postImages, origin, items, wmStarted, wmDone, savedBy,
                 postRecord, provenancePage, listPage>>

\* updateProgress(.., 'posting', 70, ..); return
PublishFinish(e) ==
  /\ execState[e] = "PostToBlueskyTask" /\ pos[e] = "created"
  /\ \E written \in BOOLEAN :
       WriteProgress(e, updateProgress(progress, "posting", 70,
                                  "Bluesky post completed", written), written)
  /\ Return(e, "publish")
  /\ UNCHANGED <<sideVars, postImages, origin, items, wmStarted, wmDone, failedStep,
                 createAttempts, savedBy, externalPosts, postRecord,
                 provenancePage, listPage>>

\* ---------------------------------------------------------- provenance step
\* generate-provenance.ts handler

ProvenanceCatch(e, written) ==
  /\ WriteProgress(e, markFailedProvenance(progress, written), written)
  /\ Fail(e, "provenance")
  /\ UNCHANGED <<invoked, returned>>

\* updateProgress(postId, 'generating', 75, ...)
ProvenanceBegin(e) ==
  /\ execState[e] = "GenerateProvenanceTask" /\ pos[e] = "start"
  /\ \E written \in BOOLEAN :
       WriteProgress(e, updateProgress(progress, "generating", 75,
                                  "Generating provenance page", written), written)
  /\ pos' = [pos EXCEPT ![e] = "load"]
  /\ UNCHANGED <<sideVars, postImages, execState, origin, items, wmStarted, wmDone,
                 failedStep, invoked, returned, createAttempts, savedBy,
                 externalPosts, postRecord, provenancePage, listPage>>

\* post.json, userDB.getUserInfo (absent: throw), render; then 85
ProvenanceLoad(e) ==
  /\ execState[e] = "GenerateProvenanceTask" /\ pos[e] = "load"
  /\ \E loaded \in BOOLEAN, written \in BOOLEAN :
       IF loaded
       THEN /\ WriteProgress(e, updateProgress(progress, "generating", 85,
                                          "Saving post information", written), written)
            /\ pos' = [pos EXCEPT ![e] = "save"]
            /\ UNCHANGED <<execState, failedStep, invoked, returned>>
       ELSE ProvenanceCatch(e, written)
  /\ UNCHANGED <<sideVars, postImages, origin, items, wmStarted, wmDone, createAttempts,
                 savedBy, externalPosts, postRecord, provenancePage, listPage>>

\* a handler that goes on to the page without saving the PostRecord
ProvenanceSavePostponed(e) ==
  /\ execState[e] = "GenerateProvenanceTask" /\ pos[e] = "save"
  /\ \E written \in BOOLEAN :
       WriteProgress(e, updateProgress(progress, "generating", 90,
                                  "Saving provenance page", written), written)
  /\ pos' = [pos EXCEPT ![e] = "page"]
  /\ UNCHANGED <<sideVars, postImages, execState, origin, items, wmStarted, wmDone,
                 failedStep, invoked, returned, createAttempts, savedBy,
                 externalPosts, postRecord, provenancePage, listPage>>

\* postDB.savePost(postInfo); then 90
ProvenanceSave(e) ==
  /\ execState[e] = "GenerateProvenanceTask" /\ pos[e] = "save"
  /\ \E saved \in BOOLEAN, written \in BOOLEAN :
       IF saved
       THEN /\ postRecord' = TRUE
            /\ savedBy' = [savedBy EXCEPT ![e] = @ + 1]
            /\ WriteProgress(e, updateProgress(progress, "generating", 90,
                                          "Saving provenance page", written), written)
            /\ pos' = [pos EXCEPT ![e] = "page"]
            /\ UNCHANGED <<execState, failedStep, invoked, returned>>
       ELSE /\ ProvenanceCatch(e, written)
            /\ UNCHANGED <<postRecord, savedBy>>
  /\ UNCHANGED <<sideVars, postImages, origin, items, wmStarted, wmDone, createAttempts,
                 externalPosts, provenancePage, listPage>>

\* PutObject provenance/{postId}/index.html; then 95; return
ProvenancePage(e) ==
  /\ execState[e] = "GenerateProvenanceTask" /\ pos[e] = "page"
  /\ \E put \in BOOLEAN, written \in BOOLEAN :
       IF put
       THEN /\ provenancePage' = TRUE
            /\ WriteProgress(e, updateProgress(progress, "generating", 95,
                                          "Provenance page completed", written), written)
            /\ Return(e, "provenance")
            /\ UNCHANGED failedStep
       ELSE /\ ProvenanceCatch(e, written)
            /\ UNCHANGED provenancePage
  /\ UNCHANGED <<sideVars, postImages, origin, items, wmStarted, wmDone, createAttempts,
                 savedBy, externalPosts, postRecord, listPage>>

\* ------------------------------------------------------------- reindex step
\* update-user-list handler: user info, listing, PutObject of the list page,
\* cache invalidation (its failure is logged only); catch: re-throw
UpdateUserList(e) ==
  /\ execState[e] = "UpdateUserListTask" /\ pos[e] = "start"
  /\ \E put \in BOOLEAN :
       IF put
       THEN /\ listPage' = TRUE
            /\ Return(e, "reindex")
            /\ UNCHANGED failedStep
       ELSE /\ Fail(e, "reindex")
            /\ UNCHANGED <<listPage, invoked, returned>>
  /\ UNCHANGED <<sideVars, postImages, origin, items, wmStarted, wmDone, createAttempts,
                 savedBy, progress, lastWriter, externalPosts, postRecord, provenancePage>>

\* --------------------------------------------------------------- timeouts
TaskStates == {"PostToBlueskyTask", "GenerateProvenanceTask", "UpdateUserListTask"}

\* a function reaches its timeout (5 minutes) inside the handler: the
\* invocation fails where it stands, its catch block does not run
FunctionTimeout(e) ==
  /\ \/ /\ execState[e] \in TaskStates
        /\ Fail(e, StepOf(execState[e]))
     \/ /\ execState[e] = "ParallelWatermarkTasks"
        /\ wmStarted[e] > wmDone[e]
        /\ Fail(e, "watermark")
  /\ UNCHANGED <<sideVars, postImages, origin, items, wmStarted, wmDone, invoked,
                 returned, createAttempts, savedBy, progress, lastWriter, externalPosts,
                 postRecord, provenancePage, listPage>>

\* the state machine's timeout (30 minutes) ends a running execution
ExecutionTimeout(e) ==
  /\ Started(e) /\ ~Terminal(e)
  /\ execState' = [execState EXCEPT ![e] = "TimedOut"]
  /\ pos' = [pos EXCEPT ![e] = "idle"]
  /\ UNCHANGED <<sideVars, postImages, origin, items, wmStarted, wmDone, failedStep,
                 invoked, returned, createAttempts, savedBy, progress, lastWriter,
                 externalPosts, postRecord, provenancePage, listPage>>

\* ================================================== facet extraction
\* detectFacets of post-to-bluesky.ts, run twice over one text.  A text is
\* a JavaScript string, here a sequence of one-character strings; "U+732B"
\* stands for the character U+732B, "LF", "CR", "TAB", "QUOTE",
\* "APOSTROPHE", "BACKQUOTE" and "BACKSLASH" for the characters of those names.

Pieces == {"http://", "a", "#", "@", " ", "U+732B", "."}

Expand(piece) ==
  IF piece = "http://" THEN <<"h", "t", "t", "p", ":", "/", "/">> ELSE <<piece>>

RECURSIVE Flatten(_)
Flatten(ps) ==
  IF ps = <<>> THEN <<>> ELSE Expand(Head(ps)) \o Flatten(Tail(ps))

Texts == {Flatten(ps) : ps \in UNION {[1..n -> Pieces] : n \in 0..MaxPieces}}

\* \s of the URL and mention patterns
WhiteSpace == {" ", "LF", "CR", "TAB"}
\* the class the URL pattern excludes: white space and < > QUOTE { } |
\* BACKSLASH ^ BACKQUOTE [ ]
UrlExcluded ==
  WhiteSpace \cup
    {"<", ">", "QUOTE", "{", "}", "|", "BACKSLASH", "^", "BACKQUOTE", "[", "]"}
\* [^ \r\n] of the hashtag pattern
HashtagStop == {" ", "CR", "LF"}
\* the trailing run url.replace removes from a matched URL: any of
\* . , ; : ! ? ) ] } > QUOTE APOSTROPHE
TrailingPunctuation ==
  {".", ",", ";", ":", "!", "?", ")", "]", "}", ">", "QUOTE", "APOSTROPHE"}

\* bytes of one character in UTF-8
ByteLen(c) == IF c = "U+732B" THEN 3 ELSE 1

\* s.length, the offset a character count would give
Utf16Length(s) == Len(s)

\* encoder.encode(s).length
RECURSIVE Utf8Len(_)
Utf8Len(s) ==
  IF s = <<>> THEN 0 ELSE ByteLen(Head(s)) + Utf8Len(Tail(s))

\* last index of the longest run from i of characters outside Stop
\* (i - 1 when the run is empty)
RECURSIVE RunEnd(_, _, _)
RunEnd(txt, i, Stop) ==
  IF i > Len(txt) \/ txt[i] \in Stop THEN i - 1 ELSE RunEnd(txt, i + 1, Stop)

StartsWith(txt, i, lit) ==
  /\ i + Len(lit) - 1 <= Len(txt)
  /\ SubSeq(txt, i, i + Len(lit) - 1) = lit

\* length of https?:\/\/ matched at i, 0 when it does not match
SchemeLen(txt, i) ==
  IF StartsWith(txt, i, <<"h", "t", "t", "p", ":", "/", "/">>) THEN 7
  ELSE IF StartsWith(txt, i, <<"h", "t", "t", "p", "s", ":", "/", "/">>) THEN 8
  ELSE 0

\* url.replace: the trailing punctuation is dropped
RECURSIVE StripTrailing(_)
StripTrailing(url) ==
  IF url # <<>> /\ url[Len(url)] \in TrailingPunctuation
  THEN StripTrailing(SubSeq(url, 1, Len(url) - 1))
  ELSE url

\* one facet; matchIndex (match.index) and token (the matched txt the span
\* was measured from) are kept beside index.byteStart and index.byteEnd
Facet(txt, i, token, type) ==
  LET start == Utf8Len(SubSeq(txt, 1, i - 1)) IN
  [byteStart |-> start, byteEnd |-> start + Utf8Len(token), type |-> type,
   matchIndex |-> i - 1, token |-> token]

\* while ((match = urlRegex.exec(txt)) !== null), from index i
RECURSIVE UrlFacets(_, _)
UrlFacets(txt, i) ==
  IF i > Len(txt) THEN <<>>
  ELSE LET k == SchemeLen(txt, i)
           e == RunEnd(txt, i + k, UrlExcluded)
       IN IF k > 0 /\ e >= i + k
          THEN <<Facet(txt, i, StripTrailing(SubSeq(txt, i, e)), "link")>>
                 \o UrlFacets(txt, e + 1)
          ELSE UrlFacets(txt, i + 1)

\* while ((match = mentionRegex.exec(txt)) !== null): the matches with
\* their facets as a resolved handle would give them
RECURSIVE MentionMatches(_, _)
MentionMatches(txt, i) ==
  IF i > Len(txt) THEN <<>>
  ELSE LET e == RunEnd(txt, i + 1, WhiteSpace)
           sep == IF e + 1 <= Len(txt) /\ txt[e + 1] \in WhiteSpace THEN 1 ELSE 0
       IN IF txt[i] = "@" /\ e >= i + 1
          THEN <<Facet(txt, i, SubSeq(txt, i, e), "mention")>>
                 \o MentionMatches(txt, e + 1 + sep)
          ELSE MentionMatches(txt, i + 1)

\* length of ( |\r\n|\n|\r)? matched at i
SeparatorLen(txt, i) ==
  IF i > Len(txt) THEN 0
  ELSE IF txt[i] = " " THEN 1
  ELSE IF txt[i] = "CR" /\ i + 1 <= Len(txt) /\ txt[i + 1] = "LF" THEN 2
  ELSE IF txt[i] \in {"LF", "CR"} THEN 1
  ELSE 0

\* while ((match = hashtagRegex.exec(txt)) !== null), from index i
RECURSIVE HashtagFacets(_, _)
HashtagFacets(txt, i) ==
  IF i > Len(txt) THEN <<>>
  ELSE IF txt[i] = "#"
       THEN LET e == RunEnd(txt, i + 1, HashtagStop)
                rest == HashtagFacets(txt, e + 1 + SeparatorLen(txt, e + 1))
            IN IF e > i
               THEN <<Facet(txt, i, SubSeq(txt, i, e), "tag")>> \o rest
               ELSE rest
       ELSE HashtagFacets(txt, i + 1)

\* Array.prototype.sort((a, b) => a.index.byteStart - b.index.byteStart),
\* a stable sort
RECURSIVE InsertByByteStart(_, _)
InsertByByteStart(f, sorted) ==
  IF sorted = <<>> THEN <<f>>
  ELSE IF f.byteStart < Head(sorted).byteStart
       THEN <<f>> \o sorted
       ELSE <<Head(sorted)>> \o InsertByByteStart(f, Tail(sorted))

RECURSIVE SortAfter(_, _)
SortAfter(sorted, rest) ==
  IF rest = <<>> THEN sorted
  ELSE SortAfter(InsertByByteStart(Head(rest), sorted), Tail(rest))

SortByByteStart(fs) == SortAfter(<<>>, fs)

PendingResult == [type |-> "pending"]
NullResult == [type |-> "null"]
RejectedResult == [type |-> "rejected"]

\* how one resolveHandle fetch can end: response.ok with data.did, response.ok
\* without a did, a response that is not ok, fetch or response.json throwing
FailedResolutions == {"no-did", "non-ok", "throws"}

\* a resolution without its try/catch: a throwing fetch rejects the promise
MentionResultUncaught(kind, facet) ==
  CASE kind = "did" -> facet
    [] kind = "throws" -> RejectedResult
    [] OTHER -> NullResult

\* the value of one mention promise: the facet, or null ("treat as plain
\* text") when the handle did not resolve, the throw being caught and logged
MentionResult(kind, facet) ==
  IF kind = "did" THEN facet ELSE NullResult

\* every resolution writing one shared slot: the last one to complete wins
StoreResultShared(values, i, r) ==
  [j \in DOMAIN values |->
     IF j = i THEN r
     ELSE IF values[j].type = "pending" THEN PendingResult ELSE NullResult]

\* Promise.all: the value of promise i is element i of the result
StoreResult(values, i, r) == [values EXCEPT ![i] = r]

Runs == {1, 2}

FacetsIdle ==
  /\ text = <<>>
  /\ resolvable = {}
  /\ fphase = [r \in Runs |-> "idle"]
  /\ facets = [r \in Runs |-> <<>>]
  /\ results = [r \in Runs |-> <<>>]
  /\ completion = [r \in Runs |-> <<>>]

\* detectFacets up to await Promise.all: the link facets are in the array,
\* one resolution per mention match is in flight
DetectFacetsBegin(r) ==
  /\ fphase[r] = "idle"
  /\ \A q \in Runs : q < r => fphase[q] = "done"
  /\ fphase' = [fphase EXCEPT ![r] = "resolving"]
  /\ facets' = [facets EXCEPT ![r] = UrlFacets(text, 1)]
  /\ results' = [results EXCEPT ![r] =
       [i \in 1..Len(MentionMatches(text, 1)) |-> PendingResult]]
  /\ UNCHANGED <<text, resolvable, completion>>
  /\ UNCHANGED <<pipelineVars, settingsVars, pollResponse, handlerVars, listingVars>>

\* one resolveHandle fetch completes, in any order: a facet when the handle
\* resolved to a DID, null otherwise
ResolveHandle(r) ==
  /\ fphase[r] = "resolving"
  /\ \E i \in DOMAIN results[r] :
       /\ results[r][i].type = "pending"
       /\ \E kind \in IF i \in resolvable THEN {"did"} ELSE FailedResolutions :
            results' = [results EXCEPT ![r] =
              StoreResult(@, i, MentionResult(kind, MentionMatches(text, 1)[i]))]
       /\ completion' = [completion EXCEPT ![r] = Append(@, i)]
  /\ UNCHANGED <<text, resolvable, fphase, facets>>
  /\ UNCHANGED <<pipelineVars, settingsVars, pollResponse, handlerVars, listingVars>>

IsFacet(r) == r.type \notin {"pending", "null"}

\* await Promise.all settled: it rejects as soon as one promise rejected
\* (detectFacets then throws), and resolves when every promise has a value:
\* the mention facets, the hashtag facets, the sort
DetectFacetsEnd(r) ==
  /\ fphase[r] = "resolving"
  /\ IF \E i \in DOMAIN results[r] : results[r][i] = RejectedResult
     THEN /\ fphase' = [fphase EXCEPT ![r] = "failed"]
          /\ UNCHANGED facets
     ELSE /\ \A i \in DOMAIN results[r] : results[r][i].type # "pending"
          /\ facets' = [facets EXCEPT ![r] =
               SortByByteStart(@ \o SelectSeq(results[r], IsFacet)
                                 \o HashtagFacets(text, 1))]
          /\ fphase' = [fphase EXCEPT ![r] = "done"]
  /\ UNCHANGED <<text, resolvable, results, completion>>
  /\ UNCHANGED <<pipelineVars, settingsVars, pollResponse, handlerVars, listingVars>>

\* ============================================ user settings and listing page
\* The settings branch of the mypage handler and the update-user-list
\* handler, for one user, over the object {userId}.json.  A provenancePageId
\* is a positive number, 0 stands for "no object" / "no value".

Requests == 1..MaxRequests

NoResult == [userListUrl |-> <<>>, userListUpdated |-> FALSE, totalPosts |-> 0]

NoRun ==
  [pid |-> 0, totalPosts |-> 0, key |-> <<>>, paths |-> {},
   invalidated |-> FALSE, outcome |-> "none", result |-> NoResult]

SettingsIdle ==
  /\ userPid = 0
  /\ minted = 0
  /\ firstStored = 0
  /\ req = [k \in Requests |-> [pc |-> "idle", seen |-> 0]]
  /\ reindex = [pc |-> "idle", pid |-> 0, totalPosts |-> 0]
  /\ lastReindex = NoRun
  /\ prevReindex = NoRun

\* existingUserInfo?.provenancePageId || generateUUID()
PageIdFor(seen, fresh) == IF seen # 0 THEN seen ELSE fresh

\* settings save up to getUserInfo: the credentials were validated, the
\* password encrypted, the stored object read (null on NoSuchKey); any of
\* these failing ends the request with nothing changed
SettingsLoad(k) ==
  /\ req[k].pc = "idle"
  /\ \E ok \in BOOLEAN :
       req' = [req EXCEPT ![k] =
                 IF ok THEN [pc |-> "loaded", seen |-> userPid] ELSE @]
  /\ UNCHANGED <<userPid, minted, firstStored, reindex, lastReindex, prevReindex>>
  /\ UNCHANGED <<pipelineVars, facetVars, pollResponse, handlerVars, listingVars>>

\* settings save from building userInfo on: PutObject of {userId}.json
SettingsPut(k) ==
  /\ req[k].pc = "loaded"
  /\ \E ok \in BOOLEAN :
       LET fresh == minted + 1
           pid == PageIdFor(req[k].seen, fresh)
       IN IF ok
          THEN /\ userPid' = pid
               /\ minted' = IF req[k].seen = 0 THEN fresh ELSE minted
               /\ firstStored' = IF firstStored = 0 THEN pid ELSE firstStored
          ELSE UNCHANGED <<userPid, minted, firstStored>>
  /\ req' = [req EXCEPT ![k] = [pc |-> "idle", seen |-> 0]]
  /\ UNCHANGED <<reindex, lastReindex, prevReindex>>
  /\ UNCHANGED <<pipelineVars, facetVars, pollResponse, handlerVars, listingVars>>

\* a listing key that depends on the number of posts
ListKeyByCount(pid, count) ==
  IF count = 0 THEN <<"users", 0>> ELSE <<"users", pid>>

\* Key: `users/${userInfo.provenancePageId}.html`
ListKey(pid, count) == <<"users", pid>>

\* Items: [`/users/${userInfo.provenancePageId}.html`]
InvalidationPaths(pid) == {<<"/users", pid>>}

\* update-user-list up to the page content: the user object is read (a
\* missing object fails the run), the user's posts are collected
UpdateUserListLoad ==
  /\ reindex.pc = "idle"
  /\ userPid # 0
  /\ \E count \in 0..MaxPosts :
       reindex' = [pc |-> "loaded", pid |-> userPid, totalPosts |-> count]
  /\ UNCHANGED <<userPid, minted, firstStored, req, lastReindex, prevReindex>>
  /\ UNCHANGED <<pipelineVars, facetVars, pollResponse, handlerVars, listingVars>>

\* a handler that lets a failed invalidation reach its outer catch
ReindexOutcomeInvalidationFatal(put, invalidated) ==
  IF put /\ invalidated THEN "returned" ELSE "thrown"

\* how the handler ends: a failing PutObject reaches the outer catch and is
\* re-thrown, a failing CreateInvalidation is caught where it happens
ReindexOutcome(put, invalidated) == IF put THEN "returned" ELSE "thrown"

\* return { ...event, userListUrl, userListUpdated: true, totalPosts }
ReindexResult(pid, count) ==
  [userListUrl |-> <<"/users", pid>>, userListUpdated |-> TRUE, totalPosts |-> count]

\* update-user-list from PutObject on: the page is written, then the
\* invalidation requested (CLOUDFRONT_DISTRIBUTION_ID is set by the stack);
\* a failing PutObject fails the run with nothing stored
UpdateUserListPublish ==
  /\ reindex.pc = "loaded"
  /\ \E put \in BOOLEAN, invalidated \in BOOLEAN :
       IF put
       THEN /\ lastReindex' =
                 [pid |-> reindex.pid,
                  totalPosts |-> reindex.totalPosts,
                  key |-> ListKey(reindex.pid, reindex.totalPosts),
                  paths |-> InvalidationPaths(reindex.pid),
                  invalidated |-> invalidated,
                  outcome |-> ReindexOutcome(put, invalidated),
                  result |-> IF ReindexOutcome(put, invalidated) = "returned"
                             THEN ReindexResult(reindex.pid, reindex.totalPosts)
                             ELSE NoResult]
            /\ prevReindex' = lastReindex
       ELSE UNCHANGED <<lastReindex, prevReindex>>
  /\ reindex' = [pc |-> "idle", pid |-> 0, totalPosts |-> 0]
  /\ UNCHANGED <<userPid, minted, firstStored, req>>
  /\ UNCHANGED <<pipelineVars, facetVars, pollResponse, handlerVars, listingVars>>

\* ============================================================ progress poll
\* The handler of lambda/progress/index.ts over the item of one taskId,
\* with the writes and the expiry that change the item.

NoResponse == [statusCode |-> 0]

\* progress.status === 'completed'
IsCompletedStrict(status) == status = "completed"

\* progress.status === 'completed' || progress.status === 'error'
IsCompleted(status) == status \in {"completed", "error"}

\* the response of the handler; asked (was a taskId given, did GetItem
\* succeed) and item (what the table held) are kept beside it
ProgressHandler(item, hasTaskId, readOk) ==
  LET asked == [hasTaskId |-> hasTaskId, readOk |-> readOk] IN
  IF ~hasTaskId THEN [statusCode |-> 400, asked |-> asked, item |-> item]
  ELSE IF ~readOk THEN [statusCode |-> 500, asked |-> asked, item |-> item]
  ELSE IF item = NoRecord THEN [statusCode |-> 404, asked |-> asked, item |-> item]
  ELSE [statusCode |-> 200, asked |-> asked, item |-> item,
        status |-> item.status, progress |-> item.progress,
        message |-> item.message, error |-> item.error,
        completed |-> IsCompleted(item.status)]

WrittenStatuses == {"starting", "posting", "generating", "completed"}
WrittenProgress == {0, 40, 100}

\* a writer of the table puts the item of the taskId
PutProgress ==
  /\ \/ \E s \in WrittenStatuses, p \in WrittenProgress :
          progress' = updateProgress(progress, s, p, "", TRUE)
     \/ progress' = markFailedPublish(progress, TRUE)
     \/ progress' = markFailedProvenance(progress, TRUE)
  /\ UNCHANGED <<executionVars, lastWriter, facetVars, settingsVars, pollResponse,
                 handlerVars, listingVars>>

\* the ttl attribute (one day) passed: the item is gone
ExpireProgress ==
  /\ progress # NoRecord
  /\ progress' = NoRecord
  /\ UNCHANGED <<executionVars, lastWriter, facetVars, settingsVars, pollResponse,
                 handlerVars, listingVars>>

\* GET of the progress of the taskId
PollProgress ==
  /\ \E hasTaskId \in BOOLEAN, readOk \in BOOLEAN :
       pollResponse' = ProgressHandler(progress, hasTaskId, readOk)
  /\ UNCHANGED <<pipelineVars, facetVars, settingsVars, handlerVars, listingVars>>

\* ================================================= one handler invocation
\* The Publish handler (post-to-bluesky.ts) and the Provenance handler
\* (generate-provenance.ts) as programs: the sequence of their awaited
\* calls inside the try block.  hInput fixes the step, the awaited call that
\* throws (if any) and the userId stored in {postId}/post.json; the handler
\* is invoked twice under the same hInput, with its own event and its own
\* progress-write outcomes each time.

Users == 1..MaxUsers

ProgressCall(status, value, message) ==
  [op |-> "updateProgress", status |-> status, value |-> value, message |-> message]

Await(name) == [op |-> "await", name |-> name]

\* a handler that reports the post as completed before creating it
PublishProgramDoneFirst ==
  << ProgressCall("posting", 35, "Starting Bluesky post"),
     Await("post.json"),
     Await("user.json"),
     Await("decrypt"),
     ProgressCall("posting", 40, "Connecting to Bluesky"),
     Await("login"),
     Await("images"),
     ProgressCall("posting", 60, "Publishing to Bluesky"),
     ProgressCall("posting", 70, "Bluesky post completed"),
     Await("createRecord") >>

\* post-to-bluesky.ts, the try block of the handler
PublishProgram ==
  << ProgressCall("posting", 35, "Starting Bluesky post"),
     Await("post.json"),
     Await("user.json"),
     Await("decrypt"),
     ProgressCall("posting", 40, "Connecting to Bluesky"),
     Await("login"),
     Await("images"),
     ProgressCall("posting", 60, "Publishing to Bluesky"),
     Await("createRecord"),
     ProgressCall("posting", 70, "Bluesky post completed") >>

\* generate-provenance.ts, the try block of the handler
ProvenanceProgram ==
  << ProgressCall("generating", 75, "Generating provenance page"),
     Await("post.json"),
     Await("getUserInfo"),
     ProgressCall("generating", 85, "Saving post information"),
     Await("savePost"),
     ProgressCall("generating", 90, "Saving provenance page"),
     Await("putPage"),
     ProgressCall("generating", 95, "Provenance page completed") >>

HandlerSteps == {"publish", "provenance"}

Program(step) == IF step = "publish" THEN PublishProgram ELSE ProvenanceProgram

\* the awaited calls of a step that can throw
Awaits(step) ==
  {Program(step)[i].name :
     i \in {j \in 1..Len(Program(step)) : Program(step)[j].op = "await"}}

\* the GetObject calls among them
ObjectStoreReads == {"post.json", "user.json", "images"}

HandlerInputs ==
  UNION {{[step |-> s, fault |-> f, owner |-> u] :
            f \in Awaits(s) \cup {"none"}, u \in Users} : s \in HandlerSteps}

NoInput == [step |-> "none", fault |-> "none", owner |-> 0]

IdleRun ==
  [pc |-> 0, eventUserId |-> 0, userId |-> 0, credential |-> 0, account |-> 0,
   images |-> FALSE, created |-> FALSE, saved |-> FALSE, page |-> FALSE,
   outcome |-> "none", payloadUserId |-> 0, rec |-> NoRecord, lost |-> FALSE,
   writes |-> <<>>]

\* no handler is invoked
HandlerIdle ==
  /\ hInput = NoInput
  /\ hRun = <<>>

\* a handler that takes the user from the event it was invoked with
PublishUserIdFromEvent(eventUserId, postUserId) == eventUserId

\* const userId = postData.userId
PublishUserId(eventUserId, postUserId) == postUserId

\* an updateProgress without its try/catch: a lost write raises
updateProgressThrowsOnLostWrite(written) == ~written

\* updateProgress is one try/catch that only logs: it never raises
updateProgressThrows(written) == FALSE

\* the image block has its own try/catch: "Posting without images"
Caught(name) == name = "images"

markFailed(step, rec, written) ==
  IF step = "publish"
  THEN markFailedPublish(rec, written)
  ELSE markFailedProvenance(rec, written)

\* what an awaited call that succeeded leaves behind
Effect(run, name, input) ==
  CASE name = "post.json" ->
         IF input.step = "publish"
         THEN [run EXCEPT !.userId = PublishUserId(run.eventUserId, input.owner)]
         ELSE run
    [] name = "user.json" -> [run EXCEPT !.credential = run.userId]
    [] name = "login" -> [run EXCEPT !.account = run.credential]
    [] name = "images" -> [run EXCEPT !.images = TRUE]
    [] name = "createRecord" -> [run EXCEPT !.created = TRUE]
    [] name = "savePost" -> [run EXCEPT !.saved = TRUE]
    [] name = "putPage" -> [run EXCEPT !.page = TRUE]
    [] OTHER -> run

\* the items put so far, with one more when the put took effect
Logged(writes, rec, written) ==
  IF written THEN Append(writes, [status |-> rec.status, progress |-> rec.progress])
  ELSE writes

\* catch (error): markFailed, then throw error
HandlerCatch(run, step, written) ==
  [run EXCEPT !.rec = markFailed(step, run.rec, written),
              !.writes = Logged(@, markFailed(step, run.rec, written), written),
              !.lost = @ \/ ~written,
              !.outcome = "thrown"]

Running(r) ==
  /\ hRun[r].outcome = "none"
  /\ hRun[r].pc \in 1..Len(Program(hInput.step))

\* the function is invoked with an event; Provenance takes userId from it
InvokeHandler(r) ==
  /\ hInput # NoInput
  /\ hRun[r].pc = 0
  /\ \A q \in {1, 2} : q < r => hRun[q].outcome # "none"
  /\ \E u \in Users :
       hRun' = [hRun EXCEPT ![r] =
                  [IdleRun EXCEPT !.pc = 1, !.eventUserId = u,
                                  !.userId = IF hInput.step = "provenance"
                                             THEN u ELSE 0]]
  /\ UNCHANGED hInput
  /\ UNCHANGED <<pipelineVars, facetVars, settingsVars, pollResponse, listingVars>>

\* await updateProgress(...)
HandlerProgress(r) ==
  /\ Running(r)
  /\ LET run == hRun[r]
         ins == Program(hInput.step)[run.pc]
     IN /\ ins.op = "updateProgress"
        /\ \E written \in BOOLEAN, caughtWritten \in BOOLEAN :
             hRun' = [hRun EXCEPT ![r] =
               IF updateProgressThrows(written)
               THEN HandlerCatch(run, hInput.step, caughtWritten)
               ELSE [run EXCEPT
                       !.rec = updateProgress(run.rec, ins.status, ins.value,
                                              ins.message, written),
                       !.writes = Logged(@, updateProgress(run.rec, ins.status,
                                              ins.value, ins.message, written),
                                         written),
                       !.lost = @ \/ ~written,
                       !.pc = @ + 1]]
  /\ UNCHANGED hInput
  /\ UNCHANGED <<pipelineVars, facetVars, settingsVars, pollResponse, listingVars>>

\* any other awaited call: it succeeds, or it throws into the catch block,
\* or (the image block) its failure is caught where it happened
HandlerAwait(r) ==
  /\ Running(r)
  /\ LET run == hRun[r]
         ins == Program(hInput.step)[run.pc]
     IN /\ ins.op = "await"
        /\ \E written \in BOOLEAN :
             hRun' = [hRun EXCEPT ![r] =
               IF hInput.fault = ins.name
               THEN IF Caught(ins.name)
                    THEN [run EXCEPT !.pc = @ + 1]
                    ELSE HandlerCatch(run, hInput.step, written)
               ELSE [Effect(run, ins.name, hInput) EXCEPT !.pc = @ + 1]]
  /\ UNCHANGED hInput
  /\ UNCHANGED <<pipelineVars, facetVars, settingsVars, pollResponse, listingVars>>

\* return { ...inputData, userId: userId, ... } / { ...eventData, ... }
HandlerReturn(r) ==
  /\ hRun[r].outcome = "none"
  /\ hRun[r].pc = Len(Program(hInput.step)) + 1
  /\ hRun' = [hRun EXCEPT ![r] =
       [@ EXCEPT !.outcome = "returned",
                 !.payloadUserId = IF hInput.step = "publish"
                                   THEN hRun[r].userId
                                   ELSE hRun[r].eventUserId]]
  /\ UNCHANGED hInput
  /\ UNCHANGED <<pipelineVars, facetVars, settingsVars, pollResponse, listingVars>>

\* ================================================== listing of a user
\* What update-user-list renders, over the posts of the stores: per postId
\* the userId and createdAt of {postId}/post.json, whether the prefix
\* provenance/{postId}/ exists in the public bucket, and whether the item
\* of the posts table carries deletedAt.

PostIds == 1..MaxListed

Times == 1..MaxListed

NoListing == [userId |-> 0, posts |-> <<>>, totalPosts |-> 0]

ListingIdle ==
  /\ postStore = <<>>
  /\ rendered = NoListing

\* for (const prefix of listResult.CommonPrefixes), from postId p on, in
\* key order: the posts whose post.json carries the userId
RECURSIVE UserPostsFrom(_, _, _)
UserPostsFrom(store, userId, p) ==
  IF p > Len(store) THEN <<>>
  ELSE IF store[p].page /\ store[p].userId = userId
       THEN <<p>> \o UserPostsFrom(store, userId, p + 1)
       ELSE UserPostsFrom(store, userId, p + 1)

\* userPosts.sort((a, b) => new Date(b.createdAt) - new Date(a.createdAt)),
\* a stable sort
RECURSIVE InsertByCreatedAt(_, _, _)
InsertByCreatedAt(store, p, sorted) ==
  IF sorted = <<>> THEN <<p>>
  ELSE IF store[p].createdAt > store[Head(sorted)].createdAt
       THEN <<p>> \o sorted
       ELSE <<Head(sorted)>> \o InsertByCreatedAt(store, p, Tail(sorted))

RECURSIVE SortNewestAfter(_, _, _)
SortNewestAfter(store, sorted, rest) ==
  IF rest = <<>> THEN sorted
  ELSE SortNewestAfter(store, InsertByCreatedAt(store, Head(rest), sorted), Tail(rest))

SortNewestFirst(store, ps) == SortNewestAfter(store, <<>>, ps)

\* generate-provenance stored provenance/{postId}/index.html
PutProvenancePage(p) ==
  /\ ~postStore[p].page
  /\ postStore' = [postStore EXCEPT ![p].page = TRUE]
  /\ UNCHANGED rendered
  /\ UNCHANGED <<pipelineVars, facetVars, settingsVars, pollResponse, handlerVars>>

\* PostDB.deletePost: the item of the postId is put with deletedAt
deletePost(p) ==
  /\ ~postStore[p].deleted
  /\ postStore' = [postStore EXCEPT ![p].deleted = TRUE]
  /\ UNCHANGED rendered
  /\ UNCHANGED <<pipelineVars, facetVars, settingsVars, pollResponse, handlerVars>>

\* update-user-list for userId: list the prefixes, filter, sort, render;
\* totalPosts: userPosts.length
UpdateUserListRender(userId) ==
  /\ LET userPosts == SortNewestFirst(postStore, UserPostsFrom(postStore, userId, 1))
     IN rendered' = [userId |-> userId, posts |-> userPosts,
                     totalPosts |-> Len(userPosts)]
  /\ UNCHANGED postStore
  /\ UNCHANGED <<pipelineVars, facetVars, settingsVars, pollResponse, handlerVars>>

\* ------------------------------------------------------------------ Init
Init ==
  /\ postImages \in 0..MaxImages
  /\ ExecutionsIdle
  /\ progress = NoRecord
  /\ lastWriter = 0
  /\ FacetsIdle
  /\ SettingsIdle
  /\ pollResponse = NoResponse
  /\ HandlerIdle
  /\ ListingIdle

\* ------------------------------------------------------------ specification
Next ==
  \E e \in Executions :
    \/ TriggerHandler(e)
    \/ StartExecution(e)
    \/ CheckImageCount(e)
    \/ WatermarkSucceed(e)
    \/ WatermarkFail(e)
    \/ PublishBegin(e)
    \/ PublishLoad(e)
    \/ PublishLogin(e)
    \/ PublishCreate(e)
    \/ PublishFinish(e)
    \/ ProvenanceBegin(e)
    \/ ProvenanceLoad(e)
    \/ ProvenanceSave(e)
    \/ ProvenancePage(e)
    \/ UpdateUserList(e)
    \/ FunctionTimeout(e)
    \/ ExecutionTimeout(e)

Spec == Init /\ [][Next]_vars

\* detectFacets run twice over every text of Texts
FacetInit ==
  /\ postImages = 0
  /\ ExecutionsIdle
  /\ progress = NoRecord
  /\ lastWriter = 0
  /\ SettingsIdle
  /\ pollResponse = NoResponse
  /\ HandlerIdle
  /\ ListingIdle
  /\ text \in Texts
  /\ resolvable \in SUBSET (1..Len(MentionMatches(text, 1)))
  /\ fphase = [r \in Runs |-> "idle"]
  /\ facets = [r \in Runs |-> <<>>]
  /\ results = [r \in Runs |-> <<>>]
  /\ completion = [r \in Runs |-> <<>>]

FacetNext ==
  \E r \in Runs :
    \/ DetectFacetsBegin(r)
    \/ ResolveHandle(r)
    \/ DetectFacetsEnd(r)

FacetSpec == FacetInit /\ [][FacetNext]_vars

\* settings saves and update-user-list runs of one user
SettingsNext ==
  \/ \E k \in Requests : SettingsLoad(k) \/ SettingsPut(k)
  \/ UpdateUserListLoad
  \/ UpdateUserListPublish

SettingsInit == Init /\ postImages = 0

SettingsSpec == SettingsInit /\ [][SettingsNext]_vars

\* the progress endpoint polled while the item is written and expires
PollNext ==
  \/ PutProgress
  \/ ExpireProgress
  \/ PollProgress

PollInit == Init /\ postImages = 0

PollSpec == PollInit /\ [][PollNext]_vars

\* one handler invoked twice under every input of HandlerInputs
HandlerInit ==
  /\ postImages = 0
  /\ ExecutionsIdle
  /\ progress = NoRecord
  /\ lastWriter = 0
  /\ FacetsIdle
  /\ SettingsIdle
  /\ pollResponse = NoResponse
  /\ ListingIdle
  /\ hInput \in HandlerInputs
  /\ hRun = [r \in Runs |-> IdleRun]

HandlerNext ==
  \E r \in Runs :
    \/ InvokeHandler(r)
    \/ HandlerProgress(r)
    \/ HandlerAwait(r)
    \/ HandlerReturn(r)

HandlerSpec == HandlerInit /\ [][HandlerNext]_vars

\* the posts of the stores, none with a page or deleted yet
ListingInit ==
  /\ postImages = 0
  /\ ExecutionsIdle
  /\ progress = NoRecord
  /\ lastWriter = 0
  /\ FacetsIdle
  /\ SettingsIdle
  /\ pollResponse = NoResponse
  /\ HandlerIdle
  /\ postStore \in [PostIds -> [userId : Users, createdAt : Times,
                                page : {FALSE}, deleted : {FALSE}]]
  /\ rendered = NoListing

ListingNext ==
  \/ \E p \in PostIds : PutProvenancePage(p) \/ deletePost(p)
  \/ \E u \in Users : UpdateUserListRender(u)

ListingSpec == ListingInit /\ [][ListingNext]_vars

\* ================================================================== claims

ValidCount(e) == items[e] >= 1 /\ items[e] <= MaxValidImageCount

C2_InvalidCountEndsWithoutSteps ==
  \A e \in Executions :
    (Started(e) /\ (items[e] = 0 \/ items[e] > MaxValidImageCount)) =>
      /\ wmStarted[e] = 0
      /\ invoked[e] = NoneInvoked
      /\ execState[e] \in {"CheckImageCount", "InvalidImageCountEnd"}

AllEnded == \A e \in Executions : Started(e) => Terminal(e)

StatusRank(st) ==
  CASE st = "none" -> 0
    [] st = "starting" -> 1
    [] st = "posting" -> 2
    [] st = "generating" -> 3
    [] st = "completed" -> 4
    [] st = "error" -> 5

C7_SucceededIsCompleted ==
  \A e \in Executions :
    (execState[e] = "Succeeded" /\ AllEnded) =>
      progress.status = "completed" /\ progress.progress = 100

\* C8: at the moment an execution fails, the ProgressRecord shows status
\* error.
C8_FailureRecordedBeforeRaise ==
  [][\A e \in Executions :
       (execState[e] # "Failed" /\ execState'[e] = "Failed") =>
         progress'.status = "error"]_vars

\* C9: within one execution every watermark invocation has returned before
\* Publish is invoked, Publish has returned before Provenance is invoked,
\* Provenance has returned before Reindex is invoked, and no step is invoked
\* after a failed predecessor.
C9_StepsStrictlyOrdered ==
  \A e \in Executions :
    /\ \A s \in Steps : invoked[e][s] <= 1 /\ returned[e][s] <= invoked[e][s]
    /\ invoked[e]["publish"] = 1 =>
         wmDone[e] = items[e] /\ wmStarted[e] = items[e]
    /\ invoked[e]["provenance"] = 1 => returned[e]["publish"] = 1
    /\ invoked[e]["reindex"] = 1 => returned[e]["provenance"] = 1
    /\ failedStep[e] = "watermark" => invoked[e] = NoneInvoked
    /\ failedStep[e] = "publish" =>
         invoked[e]["provenance"] = 0 /\ invoked[e]["reindex"] = 0
    /\ failedStep[e] = "provenance" => invoked[e]["reindex"] = 0

C9_Witness ==
  \E e \in Executions :
    /\ execState[e] = "Succeeded"
    /\ \A s \in Steps : returned[e][s] = 1
    /\ \E f \in Executions :
         failedStep[f] = "publish" /\ invoked[f]["provenance"] = 0

\* C10: at most 4 watermark invocations of an execution run at a time, and an
\* execution in which a watermark invocation failed never invokes Publish:
\* createRecord is attempted only with every image watermarked.
C10_FanOutCappedAndFailFast ==
  \A e \in Executions :
    /\ wmStarted[e] - wmDone[e] <= MaxConcurrency
    /\ failedStep[e] = "watermark" =>
         invoked[e]["publish"] = 0 /\ createAttempts[e] = 0
    /\ createAttempts[e] >= 1 => wmDone[e] = items[e]

C10_Witness ==
  \E e \in Executions :
    /\ failedStep[e] = "watermark"
    /\ wmDone[e] >= 1
    /\ wmStarted[e] - wmDone[e] = MaxConcurrency

\* ------------------------------------------------------------ facet claims
Done(r) == fphase[r] = "done"

\* C11: the span list detectFacets returns is sorted ascending by byteStart
\* and no two of its spans overlap, whatever the text.
C11_SpansSortedDisjoint ==
  \A r \in Runs :
    Done(r) =>
      \A i, j \in DOMAIN facets[r] :
        i < j => /\ facets[r][i].byteStart <= facets[r][j].byteStart
                 /\ facets[r][i].byteEnd <= facets[r][j].byteStart

\* the UTF-8 encoding of a text, byte by byte
RECURSIVE EncodedBytes(_)
EncodedBytes(s) ==
  IF s = <<>> THEN <<>>
  ELSE [k \in 1..ByteLen(Head(s)) |-> <<Head(s), k>>] \o EncodedBytes(Tail(s))

\* C12: every facet's byteStart is the number of UTF-8 bytes of the original
\* text before the match, its length the number of UTF-8 bytes of the
\* matched token, so that the span cut out of the encoded text is the
\* encoded token.
C12_ByteOffsetsOfOriginalText ==
  \A r \in Runs :
    Done(r) =>
      \A i \in DOMAIN facets[r] :
        LET f == facets[r][i]
            bytes == EncodedBytes(text)
        IN /\ f.byteStart = Len(EncodedBytes(SubSeq(text, 1, f.matchIndex)))
           /\ f.byteEnd - f.byteStart = Len(EncodedBytes(f.token))
           /\ f.byteEnd <= Len(bytes)
           /\ SubSeq(bytes, f.byteStart + 1, f.byteEnd) = EncodedBytes(f.token)

C12_Witness ==
  \E r \in Runs :
    /\ Done(r)
    /\ \E i \in DOMAIN facets[r] :
         /\ facets[r][i].type = "tag"
         /\ facets[r][i].token = <<"#", "U+732B">>
         /\ facets[r][i].byteStart > facets[r][i].matchIndex
         /\ facets[r][i].byteEnd < Len(EncodedBytes(text))

\* C13: two runs of detectFacets over the same text, the resolver answering
\* alike, return the same span list in the same order, whatever the order
\* in which the resolutions of a run completed.
C13_SameSpansEveryRun ==
  (\A r \in Runs : Done(r)) => \A r, q \in Runs : facets[r] = facets[q]

C13_Witness ==
  /\ \A r \in Runs : Done(r)
  /\ completion[1] # completion[2]
  /\ Cardinality({i \in DOMAIN facets[1] : facets[1][i].type = "mention"}) >= 2

\* ------------------------------------------------- settings and list claims
Published(run) == run # NoRun

KeyOfPageId(run) ==
  /\ run.key = <<"users", run.pid>>
  /\ run.paths = {<<"/users", run.pid>>}

\* C14: every update-user-list run that publishes writes the listing page
\* to users/{provenancePageId}.html of the user and requests invalidation of
\* exactly /users/{provenancePageId}.html, the same for every number of
\* posts found, zero included.
C14_ListingKeyFromPageIdOnly ==
  /\ Published(lastReindex) => KeyOfPageId(lastReindex)
  /\ Published(prevReindex) => KeyOfPageId(prevReindex)
  /\ (Published(lastReindex) /\ Published(prevReindex)
        /\ lastReindex.pid = prevReindex.pid) =>
       /\ lastReindex.key = prevReindex.key
       /\ lastReindex.paths = prevReindex.paths

C14_Witness ==
  /\ Published(lastReindex) /\ Published(prevReindex)
  /\ lastReindex.pid = prevReindex.pid
  /\ prevReindex.totalPosts = 0
  /\ lastReindex.totalPosts > 0

\* C15: a poll that reads the table returns 404 exactly when no item exists,
\* and otherwise 200 with the item's status, progress and message and with
\* completed true exactly when the status is completed or error.
C15_PollReflectsRecord ==
  LET r == pollResponse IN
  (r # NoResponse /\ r.asked.hasTaskId /\ r.asked.readOk) =>
    /\ r.statusCode \in {200, 404}
    /\ r.statusCode = 404 <=> r.item = NoRecord
    /\ r.statusCode = 200 =>
         /\ r.status = r.item.status
         /\ r.progress = r.item.progress
         /\ r.message = r.item.message
         /\ r.completed <=> r.item.status \in {"completed", "error"}
         /\ r.item.status \in {"starting", "posting", "generating"} => ~r.completed

C15_Witness ==
  /\ pollResponse.statusCode = 200
  /\ pollResponse.item.status = "error"
  /\ pollResponse.completed
  /\ progress = NoRecord

\* C16: once a settings save has stored a provenancePageId, the stored
\* provenancePageId is that one after every later save.
C16_PageIdNeverChanges ==
  userPid # 0 => userPid = firstStored

\* ------------------------------------------------------------ trigger claims
StartedNow(e) == execState[e] = "NotStarted" /\ execState'[e] # "NotStarted"

\* C17: when the trigger starts an execution for a message, the
\* ProgressRecord of the post has been written with status starting and
\* progress 0.
C17_StartingWrittenBeforeStart ==
  [][\A e \in Executions :
       (StartedNow(e) /\ origin'[e] = "queue") =>
         progress'.status = "starting" /\ progress'.progress = 0]_vars

C19_TriggerInputHasImageMetadata ==
  \A e \in Executions :
    (origin[e] = "queue" /\ Started(e)) => items[e] = postImages

\* C20: one trigger invocation for a message makes one start: it returns
\* success with exactly one execution started, or, the start having failed,
\* throws with no execution started and the message left for redelivery.
C20_OneStartOrRethrow ==
  [][\A e \in Executions :
       (origin'[e] # origin[e] /\ origin'[e] \in {"queue", "thrown"}) =>
         /\ Cardinality({f \in Executions : StartedNow(f)}) =
              (IF origin'[e] = "queue" THEN 1 ELSE 0)
         /\ origin'[e] = "queue" => execState'[e] = "CheckImageCount"
         /\ origin'[e] = "thrown" =>
              execState'[e] = "NotStarted" /\ FreeSlot(e)']_vars

C20_Witness ==
  \E e, f \in Executions :
    /\ origin[e] = "queue" /\ Started(e)
    /\ origin[f] = "thrown" /\ ~Started(f)

\* C21: whenever the Publish step fails with an exception, the ProgressRecord
\* then reads status error, progress 40, message "Bluesky posting failed"
\* with the error text, the execution is halted and Provenance is not
\* invoked.
C21_PublishFailureMarked ==
  [][\A e \in Executions :
       (execState[e] = "PostToBlueskyTask" /\ execState'[e] = "Failed") =>
         /\ progress' = [status |-> "error", progress |-> 40,
                         message |-> "Bluesky posting failed", error |-> TRUE]
         /\ failedStep'[e] = "publish"
         /\ invoked'[e]["provenance"] = 0]_vars

HandlerDone(r) == hRun[r].outcome # "none"

IsPosting(w) == w.status = "posting"

\* C22: the posting writes of a Publish invocation that take effect carry
\* 35, 40, 60, 70 in that order: 35 at the start, 40 with the credentials
\* loaded and before the login, 60 after the login and before createRecord,
\* 70 only with the external post created.
C22_PostingWritesInOrder ==
  hInput.step = "publish" =>
    \A r \in Runs :
      LET w == SelectSeq(hRun[r].writes, IsPosting) IN
      /\ \A i \in DOMAIN hRun[r].writes :
           hRun[r].writes[i].status = "error" => i = Len(hRun[r].writes)
      /\ \A i \in DOMAIN w : w[i].progress \in {35, 40, 60, 70}
      /\ \A i, j \in DOMAIN w : i < j => w[i].progress < w[j].progress
      /\ \A i \in DOMAIN w :
           /\ w[i].progress >= 40 => hRun[r].credential # 0
           /\ w[i].progress >= 60 => hRun[r].account # 0
           /\ w[i].progress = 70 => hRun[r].created

C22_Witness ==
  /\ hInput.step = "publish"
  /\ hRun[1].outcome = "returned" /\ hRun[1].created
  /\ hRun[1].writes = << [status |-> "posting", progress |-> 35],
                         [status |-> "posting", progress |-> 40],
                         [status |-> "posting", progress |-> 60],
                         [status |-> "posting", progress |-> 70] >>

\* C23: in a Publish invocation the credential loaded, the account posted
\* to and the userId of the returned payload are those of the userId stored
\* in {postId}/post.json, whatever userId the input event carries; two
\* invocations that differ in the event's userId agree on all three.
C23_UserFromPostSubmission ==
  hInput.step = "publish" =>
    /\ \A r \in Runs :
         /\ hRun[r].credential \in {0, hInput.owner}
         /\ hRun[r].account \in {0, hInput.owner}
         /\ hRun[r].created => hRun[r].account = hInput.owner
         /\ hRun[r].outcome = "returned" => hRun[r].payloadUserId = hInput.owner
    /\ \A r1, r2 \in Runs :
         (HandlerDone(r1) /\ HandlerDone(r2)) =>
           /\ hRun[r1].credential = hRun[r2].credential
           /\ hRun[r1].account = hRun[r2].account
           /\ hRun[r1].payloadUserId = hRun[r2].payloadUserId

C23_Witness ==
  /\ hInput.step = "publish"
  /\ \A r \in Runs : hRun[r].outcome = "returned" /\ hRun[r].created
  /\ hRun[1].eventUserId # hRun[2].eventUserId
  /\ hRun[1].eventUserId # hInput.owner
  /\ hRun[1].payloadUserId = hInput.owner

\* the mention facets of a facets array, as a set
MentionFacets(fs) == {fs[i] : i \in {j \in DOMAIN fs : fs[j].type = "mention"}}

\* C24: detectFacets never fails because of a handle resolution, and when it
\* has returned every mention promise has settled and the mention spans in
\* its result are exactly those of the @handles whose resolution succeeded;
\* a handle whose resolution failed, was not OK or threw has no span.
C24_MentionOnlyWhenResolved ==
  \A r \in Runs :
    /\ fphase[r] # "failed"
    /\ \A i \in DOMAIN results[r] :
         results[r][i] # RejectedResult
           /\ (IsFacet(results[r][i]) => i \in resolvable)
    /\ Done(r) =>
         /\ \A i \in DOMAIN results[r] : results[r][i] # PendingResult
         /\ Len(completion[r]) = Len(MentionMatches(text, 1))
         /\ MentionFacets(facets[r]) =
              {MentionMatches(text, 1)[i] : i \in resolvable}

C24_Witness ==
  /\ Done(1)
  /\ Len(MentionMatches(text, 1)) = 2
  /\ resolvable = {1}
  /\ completion[1] = <<2, 1>>
  /\ Cardinality(MentionFacets(facets[1])) = 1

\* execution e's write of a generating record took effect in this step
GeneratingWriteBy(e) ==
  /\ lastWriter' = e
  /\ progress' # progress
  /\ progress'.status = "generating"

\* C25: a Provenance invocation writes generating 75, 85, 90, 95 in that
\* order, the 95 write only with the PostRecord saved and the page
\* provenance/{postId}/index.html stored, and whenever the step fails the
\* ProgressRecord then reads status error, progress 80.
C25_GeneratingThenErrorAt80 ==
  [][\A e \in Executions :
       /\ GeneratingWriteBy(e) =>
            /\ execState[e] = "GenerateProvenanceTask"
            /\ progress'.progress =
                 (CASE pos[e] = "start" -> 75
                    [] pos[e] = "load" -> 85
                    [] pos[e] = "save" -> 90
                    [] pos[e] = "page" -> 95
                    [] OTHER -> 0)
            /\ progress'.progress = 95 =>
                 postRecord' /\ provenancePage' /\ savedBy[e] = 1
       /\ (execState[e] = "GenerateProvenanceTask" /\ execState'[e] = "Failed") =>
            /\ progress'.status = "error"
            /\ progress'.progress = 80]_vars

\* C26: an update-user-list run whose invalidation request failed after the
\* listing page was written still returns its result, with userListUrl
\* /users/{provenancePageId}.html and totalPosts the number of posts listed,
\* and the page it wrote stays stored under users/{provenancePageId}.html.
C26_InvalidationFailureNotFatal ==
  \A run \in {lastReindex, prevReindex} :
    (Published(run) /\ ~run.invalidated) =>
      /\ run.outcome = "returned"
      /\ run.result.userListUpdated
      /\ run.result.userListUrl = <<"/users", run.pid>>
      /\ run.result.totalPosts = run.totalPosts
      /\ run.key = <<"users", run.pid>>

C26_Witness ==
  /\ Published(lastReindex) /\ ~lastReindex.invalidated
  /\ lastReindex.outcome = "returned"
  /\ lastReindex.totalPosts > 0
  /\ Published(prevReindex) /\ prevReindex.invalidated

\* the elements of a sequence
Range(seq) == {seq[i] : i \in DOMAIN seq}

\* C27: the list an update-user-list run renders holds exactly the posts of
\* the step's userId that are not marked deleted at that time, each once,
\* newest createdAt first, and totalPosts is its length.
C27_ListIsNonDeletedPostsOfUser ==
  [][rendered' # rendered =>
       /\ Range(rendered'.posts) =
            {p \in PostIds : /\ postStore[p].page
                             /\ postStore[p].userId = rendered'.userId
                             /\ ~postStore[p].deleted}
       /\ \A i, j \in DOMAIN rendered'.posts :
            i < j => /\ rendered'.posts[i] # rendered'.posts[j]
                     /\ postStore[rendered'.posts[i]].createdAt
                          >= postStore[rendered'.posts[j]].createdAt
       /\ rendered'.totalPosts = Len(rendered'.posts)]_vars

\* C28: a Publish invocation in which an object-store read fails (post.json,
\* the user object, one of the post's images) fails, and no external post
\* is created by it.
C28_ReadFailureFailsPublish ==
  (hInput.step = "publish" /\ hInput.fault \in ObjectStoreReads) =>
    \A r \in Runs :
      /\ ~hRun[r].created
      /\ hRun[r].outcome # "returned"

\* how an invocation ended, the progress record left aside
Outcome(r) ==
  [outcome |-> hRun[r].outcome, created |-> hRun[r].created,
   images |-> hRun[r].images, saved |-> hRun[r].saved, page |-> hRun[r].page]

\* C29: the outcome of a Publish or Provenance invocation does not depend on
\* its progress writes: it returns exactly when no awaited call threw
\* uncaught, and two invocations under the same input end the same way
\* (returned or thrown, same external effects) whichever of their progress
\* writes were lost.
C29_LostProgressWriteChangesNothing ==
  /\ \A r \in Runs :
       HandlerDone(r) =>
         (hRun[r].outcome = "returned"
            <=> (hInput.fault = "none" \/ Caught(hInput.fault)))
  /\ \A r1, r2 \in Runs :
       (HandlerDone(r1) /\ HandlerDone(r2)) => Outcome(r1) = Outcome(r2)

C29_Witness ==
  /\ hInput.step = "provenance" /\ hInput.fault = "putPage"
  /\ hRun[1].outcome = "thrown" /\ hRun[2].outcome = "thrown"
  /\ hRun[1].lost /\ hRun[1].rec = NoRecord
  /\ ~hRun[2].lost /\ hRun[2].rec.status = "error"
  /\ hRun[1].saved /\ hRun[2].saved

\* C30: the page provenance/{postId}/index.html is stored only with the
\* PostRecord saved: a Provenance invocation reaches its page write only
\* after its savePost succeeded, and one that returned has done both.
C30_PostRecordBeforePage ==
  /\ provenancePage => postRecord
  /\ \A e \in Executions :
       /\ (execState[e] = "GenerateProvenanceTask" /\ pos[e] = "page") =>
            savedBy[e] = 1 /\ postRecord
       /\ returned[e]["provenance"] = 1 =>
            savedBy[e] = 1 /\ postRecord /\ provenancePage

\* a page write failed: the PostRecord is there, the page is not
C30_Witness ==
  /\ postRecord /\ ~provenancePage
  /\ \E e \in Executions :
       /\ failedStep[e] = "provenance"
       /\ savedBy[e] = 1
  /\ AllEnded

====
